---------------------------- MODULE Spec2Model ----------------------------
(***************************************************************************)
(* Model of src/Storages/DataLakes/IcebergMetadataParser.cpp: the chain    *)
(* metadata JSON -> manifest list -> manifest files -> data file keys      *)
(* walked by IcebergMetadataParser::getFiles.                              *)
(*                                                                         *)
(* A String is a sequence of one-character strings, so that                *)
(* std::string comparison and std::filesystem::path decomposition are      *)
(* computed character by character.                                        *)
(***************************************************************************)
EXTENDS Integers, Sequences, FiniteSets, TLC

(***************************************************************************)
(* Bounds of the explored inputs.                                          *)
(***************************************************************************)
MaxSnapshots == 2

MaxBlocks == 2

MaxRows == 2

(***************************************************************************)
(* Strings                                                                 *)
(***************************************************************************)

\* The byte value of each character used (std::char_traits<char>::lt).
Code ==
    ("-" :> 45) @@ ("." :> 46) @@ ("/" :> 47) @@ ("0" :> 48) @@ ("1" :> 49) @@
    ("2" :> 50) @@ ("5" :> 53) @@ ("7" :> 55) @@ ("9" :> 57) @@ ("=" :> 61) @@
    ("a" :> 97) @@ ("b" :> 98) @@ ("d" :> 100) @@ ("e" :> 101) @@
    ("h" :> 104) @@ ("j" :> 106) @@ ("m" :> 109) @@ ("n" :> 110) @@
    ("o" :> 111) @@ ("p" :> 112) @@ ("q" :> 113) @@ ("r" :> 114) @@
    ("s" :> 115) @@ ("t" :> 116) @@ ("u" :> 117) @@ ("v" :> 118) @@
    ("w" :> 119) @@ ("x" :> 120) @@ ("y" :> 121)

\* std::string operator< : the first differing byte decides; a proper prefix is less.
RECURSIVE StrLess(_, _)
StrLess(a, b) ==
    IF b = <<>> THEN FALSE
    ELSE IF a = <<>> THEN TRUE
    ELSE IF Code[Head(a)] < Code[Head(b)] THEN TRUE
    ELSE IF Code[Head(a)] > Code[Head(b)] THEN FALSE
    ELSE StrLess(Tail(a), Tail(b))

\* A comparison that orders v<V> names by the number V: shorter numerals first.
StrLess_numeric(a, b) ==
    IF Len(a) # Len(b) THEN Len(a) < Len(b) ELSE StrLess(a, b)

\* The comparison std::max_element applies (operator< of String).
Less(a, b) == StrLess(a, b)

\* std::max_element over [first, last): the first greatest element.
RECURSIVE MaxFrom(_, _, _)
MaxFrom(files, i, largest) ==
    IF i > Len(files) THEN largest
    ELSE MaxFrom(files, i + 1, IF Less(largest, files[i]) THEN files[i] ELSE largest)

max_element(files) == MaxFrom(files, 2, files[1])

(***************************************************************************)
(* std::filesystem::path (POSIX, generic format)                           *)
(***************************************************************************)

\* Index of the last '/' of s, 0 when there is none.
LastSlash(s) ==
    LET at == {i \in 1..Len(s) : s[i] = "/"}
    IN IF at = {} THEN 0 ELSE CHOOSE i \in at : \A j \in at : j <= i

\* s without its trailing '/' characters.
RECURSIVE StripSlashes(_)
StripSlashes(s) ==
    IF s # <<>> /\ s[Len(s)] = "/" THEN StripSlashes(SubSeq(s, 1, Len(s) - 1)) ELSE s

\* path::filename(): what follows the last separator (empty after a trailing one).
filename(s) == SubSeq(s, LastSlash(s) + 1, Len(s))

\* The filename component used to re-anchor a metadata-layer path (lines 129, 164).
metadata_filename(s) == filename(s)

\* path::parent_path(): the path itself when it has no relative part, otherwise
\* the path up to, and excluding, its last element and the separators before it.
parent_path(s) ==
    IF StripSlashes(s) = <<>> THEN s
    ELSE IF LastSlash(s) = 0 THEN <<>>
    ELSE LET head == SubSeq(s, 1, LastSlash(s))
         IN IF StripSlashes(head) = <<>> THEN head ELSE StripSlashes(head)

\* path::operator/ for a right operand that is not absolute: a separator is
\* inserted only when the left operand has a filename.
Join(lhs, rhs) ==
    IF rhs # <<>> /\ Head(rhs) = "/" THEN rhs
    ELSE IF filename(lhs) # <<>> THEN lhs \o <<"/">> \o rhs
    ELSE lhs \o rhs

metadata_directory == <<"m", "e", "t", "a", "d", "a", "t", "a">>

metadata_file_suffix ==
    <<".", "m", "e", "t", "a", "d", "a", "t", "a", ".", "j", "s", "o", "n">>

\* path(configuration.url.key) / metadata_directory / name
MetadataKey(key, name) == Join(Join(key, metadata_directory), name)

\* A key that keeps the file name only and drops the partition directory.
DataFileKey_filename_only(file_path) == filename(file_path)

\* The key a data file is reported under (line 238): partition directory / file name.
DataFileKey(file_path) == Join(filename(parent_path(file_path)), filename(file_path))

(***************************************************************************)
(* Avro containers and JSON documents held by the storage                  *)
(*                                                                         *)
(* A value of an Avro field is the sequence of its leaves: one leaf for a  *)
(* primitive, one leaf per sub-field for a nested record. A leaf is the    *)
(* String holding its text.                                                *)
(***************************************************************************)
StringType == [idx |-> "String", elems |-> <<>>]

Int64Type == [idx |-> "Int64", elems |-> <<>>]

TupleType(elems) == [idx |-> "Tuple", elems |-> elems]

AvroFile(schema, blocks) == [kind |-> "avro", schema |-> schema, blocks |-> blocks]

JsonFile(current, snapshots) ==
    [kind |-> "json", current |-> current, snapshots |-> snapshots]

\* "current-snapshot-id" : id
Present(id) == [has |-> TRUE, id |-> id]

\* A document without the key "current-snapshot-id".
Absent == [has |-> FALSE, id |-> 0]

SnapshotRecord(id, path) == [snapshot_id |-> id, manifest_list |-> path]

SeqsUpTo(S, n) == UNION {[1..k -> S] : k \in 0..n}

\* AvroSchemaReader::avroNodeToDataType(dataSchema().root()->leafAt(n))
leafAt(file, n) == file.schema[n + 1]

(***************************************************************************)
(* avro::DataFileReaderBase                                                *)
(***************************************************************************)

\* The reader over a container, before the first block is loaded; `field` is
\* the projected top-level field (0-based, as in leafAt).
NewReader(file, field) ==
    [blocks |-> file.blocks, field |-> field, block |-> 0, objectCount |-> 0,
     pos |-> 0, eof |-> FALSE]

\* The loop of hasMore(): while the current block is exhausted, load the next
\* block; end of file when there is none.
RECURSIVE LoadBlock(_)
LoadBlock(r) ==
    IF r.eof \/ r.objectCount # 0 THEN r
    ELSE IF r.block >= Len(r.blocks) THEN [r EXCEPT !.eof = TRUE]
    ELSE LoadBlock([r EXCEPT !.block = @ + 1,
                             !.objectCount = Len(r.blocks[r.block + 1]),
                             !.pos = 0])

hasMore(r) == ~LoadBlock(r).eof

\* decr() and the advance of decoder() over one row, after hasMore() said yes.
decr(r) == [LoadBlock(r) EXCEPT !.objectCount = @ - 1, !.pos = @ + 1]

\* deserializeRow: the projected field of the row under the decoder; the other
\* fields of the row are skipped.
deserializeRow(r) ==
    LET at == LoadBlock(r) IN at.blocks[at.block][at.pos + 1][at.field + 1]

\* data_type->createColumn()
createColumn(data_type) == [type |-> data_type, values |-> <<>>]

\* ColumnTuple::getColumnPtr(n)
getColumnPtr(col, n) ==
    [type |-> [idx |-> col.type.elems[n + 1], elems |-> <<>>],
     values |-> [j \in 1..Len(col.values) |-> <<col.values[j][n + 1]>>]]

\* ColumnString::getDataAt(n): the one leaf of the row.
getDataAt(col, n) == col.values[n + 1][1]

(***************************************************************************)
(* Tables: what the storage holds under configuration.url.key              *)
(***************************************************************************)
Roots == {<<"t">>, <<"w", "/", "t", "/">>}

Suffixed(version) == version \o metadata_file_suffix

V1 == Suffixed(<<"v", "1">>)

V2 == Suffixed(<<"v", "2">>)

V10 == Suffixed(<<"v", "1", "0">>)

V02 == Suffixed(<<"v", "0", "2">>)

MetadataNames == {V1, V2, V10, V02}

\* manifest-list values of snapshot records, as written by the table's writer.
S5 == <<"h", "/", "s", "5">>

S7 == <<"/", "x", "/", "y", "/", "s", "7">>

S9 == <<"h", "/", "s", "9">>

SnapshotRecords ==
    {SnapshotRecord(5, S5), SnapshotRecord(7, S7), SnapshotRecord(7, S5),
     SnapshotRecord(9, S9)}

CurrentIds == {Absent, Present(-1), Present(5), Present(7), Present(9)}

\* manifest_path values of manifest-list rows.
M0 == <<"/", "w", "/", "m", "0">>

M0bare == <<"m", "0">>

M1 == <<"h", "/", "m", "1">>

M9 == <<"h", "/", "m", "9">>

\* data_file.file_path values of manifest rows.
P1A == <<"/", "w", "/", "d", "/", "p", "=", "1", "/", "a", ".", "p", "a", "r", "q", "u", "e", "t">>

P2B == <<"s", "/", "p", "=", "2", "/", "b", ".", "p", "a", "r", "q", "u", "e", "t">>

DataPaths ==
    {P1A, P2B,
     <<"a", ".", "p", "a", "r", "q", "u", "e", "t">>,
     <<"/", "a">>,
     <<"d", "/", "/", "b">>,
     <<"d", "/", "p", "=", "1", "/">>}

Leaf0 == <<"0">>

\* A manifest-list row: manifest_path, manifest_length.
ListRow(path) == <<<<path>>, <<Leaf0>>>>

\* A manifest row: status, snapshot_id, data_file (file_path, file_format).
ManifestRow(path) == <<<<Leaf0>>, <<Leaf0>>, <<path, <<"p">>>>>>

ListSchema == <<StringType, Int64Type>>

ManifestSchema == <<Int64Type, Int64Type, TupleType(<<"String", "String">>)>>

ListOf(paths) == [j \in 1..Len(paths) |-> ListRow(paths[j])]

ManifestOf(paths) == [j \in 1..Len(paths) |-> ManifestRow(paths[j])]

\* A well-typed manifest file holding the given file paths in one block.
Manifest(paths) == AvroFile(ManifestSchema, <<ManifestOf(paths)>>)

\* Manifest files whose third field, or its first sub-field, has another type.
BadManifests ==
    {AvroFile(<<Int64Type, Int64Type, Int64Type>>, <<<<<<<<Leaf0>>, <<Leaf0>>, <<Leaf0>>>>>>>>),
     AvroFile(<<Int64Type, Int64Type, TupleType(<<"Int64", "String">>)>>,
              <<<<<<<<Leaf0>>, <<Leaf0>>, <<Leaf0, <<"p">>>>>>>>>>)}

\* A manifest list whose first field is not a string.
BadList == AvroFile(<<Int64Type, Int64Type>>, <<<<<<<<Leaf0>>, <<Leaf0>>>>>>>>)

\* Every way of cutting rows into at most k blocks, empty blocks included.
RECURSIVE Blockings(_, _)
Blockings(rows, k) ==
    (IF rows = <<>> THEN {<<>>} ELSE {}) \cup
    (IF k = 0 THEN {}
     ELSE UNION {{<<SubSeq(rows, 1, n)>> \o rest :
                    rest \in Blockings(SubSeq(rows, n + 1, Len(rows)), k - 1)} :
                 n \in 0..Len(rows)})

\* The storage of a table: the metadata documents named by `names` (version 1
\* is the document of the table's creation, without snapshots), the manifest
\* lists s5 and s7, the manifest files m0 and m1, all under key/metadata.
Table(key, names, doc, list5, list7, m0, m1) ==
    [k \in {MetadataKey(key, n) : n \in names} |->
        IF k = MetadataKey(key, V1) THEN JsonFile(Present(-1), <<>>) ELSE doc]
    @@ (MetadataKey(key, <<"s", "5">>) :> list5)
    @@ (MetadataKey(key, <<"s", "7">>) :> list7)
    @@ (MetadataKey(key, <<"m", "0">>) :> m0)
    @@ (MetadataKey(key, <<"m", "1">>) :> m1)

BaseDoc == JsonFile(Present(7), <<SnapshotRecord(5, S5), SnapshotRecord(7, S7)>>)

BaseList5 == AvroFile(ListSchema, <<ListOf(<<M0>>)>>)

BaseList7 == AvroFile(ListSchema, <<ListOf(<<M1>>), ListOf(<<M0>>)>>)

BaseM0 == Manifest(<<P1A, P2B>>)

BaseM1 == Manifest(<<P2B>>)

\* A manifest file whose rows lie in two blocks around an empty one.
BlockedM1 == AvroFile(ManifestSchema, <<ManifestOf(<<P2B>>), <<>>, ManifestOf(<<P1A, P2B>>)>>)

Scenario(key, table, callers) == [key |-> key, storage |-> table, callers |-> callers]

\* The metadata directory varies.
LocatorScenarios ==
    {Scenario(key, Table(key, names, BaseDoc, BaseList5, BaseList7, BaseM0, BaseM1), {1}) :
        key \in Roots, names \in SUBSET MetadataNames}

\* The metadata document varies.
ResolverScenarios ==
    {Scenario(key, Table(key, {V1, V2}, JsonFile(cur, snaps), BaseList5, BaseList7, BaseM0, BaseM1), {1}) :
        key \in Roots, cur \in CurrentIds, snaps \in SeqsUpTo(SnapshotRecords, MaxSnapshots)}

\* The manifest list of the current snapshot varies: its rows and its blocks.
ListScenarios ==
    {Scenario(<<"t">>, Table(<<"t">>, {V2}, BaseDoc, BaseList5, list7, BaseM0, BaseM1), {1}) :
        list7 \in {BadList} \cup
                  UNION {{AvroFile(ListSchema, blocks) : blocks \in Blockings(ListOf(paths), MaxBlocks)} :
                         paths \in SeqsUpTo({M0, M0bare, M1, M9}, MaxRows)}}

\* The manifest files vary.
ManifestScenarios ==
    {Scenario(<<"t">>, Table(<<"t">>, {V2}, BaseDoc, BaseList5, BaseList7, m0, m1), {1}) :
        m0 \in BadManifests \cup {Manifest(paths) : paths \in SeqsUpTo(DataPaths, MaxRows)},
        m1 \in BadManifests \cup {Manifest(<<>>), BaseM1, BlockedM1}}

\* getFiles is called twice, on tables of every outcome.
TwoCallScenarios ==
    {Scenario(<<"t">>, Table(<<"t">>, names, JsonFile(cur, BaseDoc.snapshots), BaseList5, list7, BaseM0, m1), {1, 2}) :
        names \in {{}, {V2, V10}}, cur \in {Absent, Present(-1), Present(7)},
        list7 \in {BaseList7, BadList}, m1 \in BadManifests \cup {BaseM1}}

Scenarios ==
    LocatorScenarios \cup ResolverScenarios \cup ListScenarios \cup
    ManifestScenarios \cup TwoCallScenarios

(***************************************************************************)
(* State                                                                   *)
(***************************************************************************)
Calls == {1, 2}

VARIABLES
    storage,    \* the files of the table: key -> JSON document or Avro container
    key,        \* configuration.url.key
    callers,    \* the calls of getFiles the environment makes
    call        \* per call of getFiles: its position and its locals

vars == <<storage, key, callers, call>>

\* The locals of a call that has not started. `buf` holds the read buffers that
\* are alive, `opened` every key createReadBuffer was called with.
IdleFrame ==
    [pc |-> "idle", error |-> "", buf |-> <<>>, opened |-> <<>>,
     metadata_file_path |-> <<>>, manifest_list |-> <<>>, manifest_files |-> <<>>,
     file_reader |-> NewReader(AvroFile(<<>>, <<>>), 0),
     columns |-> createColumn(StringType), i |-> 0, keys |-> <<>>, result |-> <<>>]

Init ==
    \E sc \in Scenarios :
        /\ storage = sc.storage
        /\ key = sc.key
        /\ callers = sc.callers
        /\ call = [c \in Calls |-> IdleFrame]

(***************************************************************************)
(* MetadataReadHelper                                                      *)
(***************************************************************************)
EndsWith(s, suffix) ==
    Len(s) >= Len(suffix) /\ SubSeq(s, Len(s) - Len(suffix) + 1, Len(s)) = suffix

StartsWith(s, prefix) == Len(s) >= Len(prefix) /\ SubSeq(s, 1, Len(prefix)) = prefix

\* The elements of S in ascending byte order, the order a listing returns keys in.
RECURSIVE Sorted(_)
Sorted(S) ==
    IF S = {} THEN <<>>
    ELSE LET least == CHOOSE x \in S : \A y \in S : ~StrLess(y, x)
         IN <<least>> \o Sorted(S \ {least})

\* listFiles(configuration, directory, suffix): the keys under key/directory
\* that end with suffix.
listFiles(files, base, directory, suffix) ==
    Sorted({k \in DOMAIN files :
              StartsWith(k, Join(Join(base, directory), <<>>)) /\ EndsWith(k, suffix)})

(***************************************************************************)
(* Scopes and exceptions                                                   *)
(***************************************************************************)

\* A scope exit that leaves the read buffer alive.
Release_leak(streams) == streams

\* The read buffer of the scope being left is destroyed.
Release(streams) == SubSeq(streams, 1, Len(streams) - 1)

\* createReadBuffer(path, ...)
createReadBuffer(f, path) ==
    [f EXCEPT !.buf = Append(@, path), !.opened = Append(@, path)]

\* An exception swallowed where it is raised: the call returns what it has so far.
Throw_swallow(f, code) ==
    [f EXCEPT !.pc = "done", !.buf = <<>>, !.result = f.keys]

\* throw Exception(code, ...): the stack unwinds through getFiles, which
\* returns nothing; every buffer alive is destroyed.
Throw(f, code) ==
    [f EXCEPT !.pc = "failed", !.error = code, !.buf = Release(@)]

Set(c, f) == call' = [call EXCEPT ![c] = f] /\ UNCHANGED <<storage, key, callers>>

(***************************************************************************)
(* Impl::getMetadataFile (lines 54-69)                                     *)
(***************************************************************************)
\* A missing metadata file taken for a table without data.
NotFound_empty_table(f) == [f EXCEPT !.pc = "done", !.result = <<>>]

\* Lines 59-65: no metadata file, the call fails before any file is opened.
NotFound(f) == Throw(f, "FILE_DOESNT_EXIST")

Start(c) ==
    /\ c \in callers
    /\ call[c].pc = "idle"
    /\ Set(c, [call[c] EXCEPT !.pc = "getMetadataFile"])

GetMetadataFile(c) ==
    /\ call[c].pc = "getMetadataFile"
    /\ LET metadata_files == listFiles(storage, key, metadata_directory, metadata_file_suffix)
       IN Set(c, IF metadata_files = <<>>
                 THEN NotFound(call[c])
                 ELSE [call[c] EXCEPT !.metadata_file_path = max_element(metadata_files),
                                      !.pc = "createReadBuffer"])

(***************************************************************************)
(* Impl::getManifestListFromMetadata (lines 108-134)                       *)
(***************************************************************************)

\* A scan that takes the last snapshot written, whatever its id.
ScanSnapshots_last(snapshots, n, current_snapshot_id, base) ==
    IF snapshots = <<>> THEN <<>>
    ELSE MetadataKey(base, metadata_filename(snapshots[Len(snapshots)].manifest_list))

\* The scan of "snapshots" (lines 123-133): the manifest list of the first
\* record whose snapshot-id is the current one, re-anchored; empty when none.
RECURSIVE ScanSnapshots(_, _, _, _)
ScanSnapshots(snapshots, n, current_snapshot_id, base) ==
    IF n > Len(snapshots) THEN <<>>
    ELSE IF snapshots[n].snapshot_id = current_snapshot_id
         THEN MetadataKey(base, metadata_filename(snapshots[n].manifest_list))
    ELSE ScanSnapshots(snapshots, n + 1, current_snapshot_id, base)

\* object->getValue<Int64>("current-snapshot-id") converts the value found;
\* without the key there is no value, and the conversion throws.
HasCurrentSnapshotId(object) == object.current.has

ManifestListOf(object, base) ==
    ScanSnapshots(object.snapshots, 1, object.current.id, base)

OpenMetadata(c) ==
    /\ call[c].pc = "createReadBuffer"
    /\ Set(c, [createReadBuffer(call[c], call[c].metadata_file_path) EXCEPT !.pc = "parse"])

ParseMetadata(c) ==
    /\ call[c].pc = "parse"
    /\ LET object == storage[call[c].metadata_file_path]
       IN Set(c, IF ~HasCurrentSnapshotId(object)
                 THEN Throw(call[c], "POCO_EXCEPTION")
                 ELSE [call[c] EXCEPT !.manifest_list = ManifestListOf(object, key),
                                      !.buf = Release(@),
                                      !.pc = "getFiles"])

(***************************************************************************)
(* IcebergMetadataParser::getFiles (lines 269-279)                         *)
(***************************************************************************)
CheckManifestList(c) ==
    /\ call[c].pc = "getFiles"
    /\ Set(c, IF call[c].manifest_list = <<>>
              THEN [call[c] EXCEPT !.pc = "done", !.result = <<>>]
              ELSE [call[c] EXCEPT !.pc = "getManifestFiles"])

(***************************************************************************)
(* Impl::parseAvro (lines 177-196)                                         *)
(***************************************************************************)

\* The buffer over `path` and the reader of the container in it, projected on
\* the top-level field `field`; an exception when the storage has no such file.
OpenAvro(f, path, field, next) ==
    IF path \notin DOMAIN storage \/ storage[path].kind # "avro"
    THEN Throw(createReadBuffer(f, path), "S3_ERROR")
    ELSE [createReadBuffer(f, path) EXCEPT
            !.file_reader = NewReader(storage[path], field),
            !.columns = createColumn(leafAt(storage[path], field)),
            !.pc = next]

\* One turn of the loop of lines 190-194.
DeserializeRow(c) ==
    /\ call[c].pc \in {"parseAvro_list", "parseAvro_manifest"}
    /\ hasMore(call[c].file_reader)
    /\ Set(c, [call[c] EXCEPT
                 !.columns.values = Append(@, deserializeRow(call[c].file_reader)),
                 !.file_reader = decr(@)])

(***************************************************************************)
(* Impl::getManifestFiles (lines 146-175)                                  *)
(***************************************************************************)
OpenManifestList(c) ==
    /\ call[c].pc = "getManifestFiles"
    /\ Set(c, OpenAvro(call[c], call[c].manifest_list, 0, "parseAvro_list"))

\* A rewrite that keeps one entry per manifest file.
RECURSIVE Distinct(_)
Distinct(q) ==
    IF q = <<>> THEN <<>>
    ELSE LET rest == Distinct(SubSeq(q, 1, Len(q) - 1))
         IN IF \E j \in 1..Len(rest) : rest[j] = q[Len(q)] THEN rest
            ELSE Append(rest, q[Len(q)])

ManifestFilesOf_distinct(col_str, base) ==
    Distinct([j \in 1..Len(col_str.values) |->
                MetadataKey(base, metadata_filename(getDataAt(col_str, j - 1)))])

\* The loop of lines 161-166.
ManifestFilesOf(col_str, base) ==
    [j \in 1..Len(col_str.values) |->
        MetadataKey(base, metadata_filename(getDataAt(col_str, j - 1)))]

ManifestFilesReturn(c) ==
    /\ call[c].pc = "parseAvro_list"
    /\ ~hasMore(call[c].file_reader)
    /\ LET col == call[c].columns
       IN Set(c, IF col.type.idx = "String"
                 THEN [call[c] EXCEPT !.manifest_files = ManifestFilesOf(col, key),
                                      !.buf = Release(@),
                                      !.keys = <<>>,
                                      !.i = 1,
                                      !.pc = "getFilesForRead"]
                 ELSE Throw(call[c], "ILLEGAL_COLUMN"))

(***************************************************************************)
(* Impl::getFilesForRead (lines 207-259)                                   *)
(***************************************************************************)

\* The loop of lines 233-239 over the file_path column of one manifest file.
KeysOf(str_col) ==
    [j \in 1..Len(str_col.values) |-> DataFileKey(getDataAt(str_col, j - 1))]

\* The keys a call holds when it begins a manifest file, were `keys` declared
\* static: what any call has collected so far.
KeysBefore_static(c) ==
    IF \E d \in Calls \ {c} : call[d].keys # <<>>
    THEN call[CHOOSE d \in Calls \ {c} : call[d].keys # <<>>].keys \o call[c].keys
    ELSE call[c].keys

\* `keys` declared inside the loop: each manifest file starts from nothing.
KeysBefore_reset(c) == <<>>

\* `keys` is a local of the call (line 209).
KeysBefore(c) == call[c].keys

NextManifest(c) ==
    /\ call[c].pc = "getFilesForRead"
    /\ Set(c, IF call[c].i > Len(call[c].manifest_files)
              THEN [call[c] EXCEPT !.pc = "done", !.result = call[c].keys]
              ELSE OpenAvro(call[c], call[c].manifest_files[call[c].i], 2, "parseAvro_manifest"))

ExtractKeys(c) ==
    /\ call[c].pc = "parseAvro_manifest"
    /\ ~hasMore(call[c].file_reader)
    /\ LET col == call[c].columns
       IN Set(c, IF col.type.idx # "Tuple"
                 THEN Throw(call[c], "ILLEGAL_COLUMN")
                 ELSE IF getColumnPtr(col, 0).type.idx # "String"
                 THEN Throw(call[c], "ILLEGAL_COLUMN")
                 ELSE [call[c] EXCEPT !.keys = KeysBefore(c) \o KeysOf(getColumnPtr(col, 0)),
                                      !.buf = Release(@),
                                      !.i = @ + 1,
                                      !.pc = "getFilesForRead"])

Next ==
    \E c \in Calls :
        \/ Start(c)
        \/ GetMetadataFile(c)
        \/ OpenMetadata(c)
        \/ ParseMetadata(c)
        \/ CheckManifestList(c)
        \/ OpenManifestList(c)
        \/ DeserializeRow(c)
        \/ ManifestFilesReturn(c)
        \/ NextManifest(c)
        \/ ExtractKeys(c)

Spec == Init /\ [][Next]_vars


(***************************************************************************)
(* Reference notions the properties are stated with                        *)
(***************************************************************************)
Finished(c) == call[c].pc \in {"done", "failed"}

\* The names between the separators of s, in order.
RECURSIVE Components(_)
Components(s) ==
    IF s = <<>> THEN <<>>
    ELSE IF Head(s) = "/" THEN Components(Tail(s))
    ELSE LET stops == {n \in 1..Len(s) : s[n] = "/"}
             stop == IF stops = {} THEN Len(s) + 1
                     ELSE CHOOSE n \in stops : \A m \in stops : n <= m
         IN <<SubSeq(s, 1, stop - 1)>> \o Components(SubSeq(s, stop, Len(s)))

EndsWithSlash(s) == s # <<>> /\ s[Len(s)] = "/"

\* The filename of s: its last name, nothing when s ends with a separator.
BaseName(s) ==
    IF EndsWithSlash(s) \/ Components(s) = <<>> THEN <<>>
    ELSE Components(s)[Len(Components(s))]

\* The name of the directory that holds the file s names.
ParentName(s) ==
    LET cs == Components(s)
        n == IF EndsWithSlash(s) THEN Len(cs) ELSE Len(cs) - 1
    IN IF n >= 1 THEN cs[n] ELSE <<>>

\* <parent-directory-name>/<filename>
PartitionAndName(s) ==
    IF ParentName(s) = <<>> THEN BaseName(s)
    ELSE ParentName(s) \o <<"/">> \o BaseName(s)

\* <table-root>/metadata/<name>
UnderMetadata(name) ==
    (IF EndsWithSlash(key) THEN key ELSE key \o <<"/">>)
        \o metadata_directory \o <<"/">> \o name

RECURSIVE Flatten(_)
Flatten(seqs) == IF seqs = <<>> THEN <<>> ELSE Head(seqs) \o Flatten(Tail(seqs))

\* The first leaf of the top-level field `field` (0-based) of every row of a
\* container, block after block.
FieldOf(file, field) ==
    LET rows == Flatten(file.blocks)
    IN [j \in 1..Len(rows) |-> rows[j][field + 1][1]]

\* The keys the metadata directory lists with the suffix .metadata.json.
Listing == {k \in DOMAIN storage : EndsWith(k, metadata_file_suffix)}

\* The call has left getMetadataFile.
Located(c) == call[c].pc \notin {"idle", "getMetadataFile"}

\* The call has left getManifestListFromMetadata by its return.
Resolved(c) ==
    \/ call[c].pc \in {"getFiles", "getManifestFiles", "parseAvro_list",
                       "getFilesForRead", "parseAvro_manifest", "done"}
    \/ call[c].pc = "failed" /\ call[c].error \in {"S3_ERROR", "ILLEGAL_COLUMN"}

\* The metadata document the call read.
Document(c) == storage[call[c].metadata_file_path]

Matching(doc) ==
    {n \in 1..Len(doc.snapshots) :
        doc.current.has /\ doc.snapshots[n].snapshot_id = doc.current.id}

\* The call has left getManifestFiles by its return.
Listed(c) == call[c].i >= 1

IsAvro(path) == path \in DOMAIN storage /\ storage[path].kind = "avro"

WellTypedManifest(path) ==
    /\ IsAvro(path)
    /\ storage[path].schema[3].idx = "Tuple"
    /\ storage[path].schema[3].elems[1] = "String"

MismatchedManifest(path) == IsAvro(path) /\ ~WellTypedManifest(path)

MismatchedList(path) == IsAvro(path) /\ storage[path].schema[1].idx # "String"

\* <parent-directory-name>/<filename> of every file_path of the first n
\* manifest files of the call, in manifest-list order, then row order.
RECURSIVE DataFilesUpTo(_, _)
DataFilesUpTo(c, n) ==
    IF n = 0 THEN <<>>
    ELSE LET paths == FieldOf(storage[call[c].manifest_files[n]], 2)
         IN DataFilesUpTo(c, n - 1) \o [j \in 1..Len(paths) |-> PartitionAndName(paths[j])]

\* The same list with <table-root>/metadata/ before every element.
AnchoredDataFilesUpTo(c, n) ==
    [j \in 1..Len(DataFilesUpTo(c, n)) |-> UnderMetadata(DataFilesUpTo(c, n)[j])]


(***************************************************************************)
(* Properties                                                              *)
(***************************************************************************)

C2_UnsetOrUnmatchedIsEmpty ==
    \A c \in Calls :
        /\ Finished(c)
        /\ call[c].opened # <<>>
        /\ (~Document(c).current.has \/ Matching(Document(c)) = {})
        => /\ call[c].pc = "done"
           /\ call[c].result = <<>>
           /\ call[c].opened = <<call[c].metadata_file_path>>

\* A call that ended on a document without current-snapshot-id.
C2_Witness ==
    \E c \in Calls :
        /\ Finished(c)
        /\ call[c].opened # <<>>
        /\ ~Document(c).current.has

\* C2, the part the code keeps: a current-snapshot-id that is present and
\* matches no entry gives the empty sequence with only the document opened.
C2_UnmatchedIsEmpty ==
    \A c \in Calls :
        /\ Finished(c)
        /\ call[c].opened # <<>>
        /\ Document(c).current.has
        /\ Matching(Document(c)) = {}
        => /\ call[c].pc = "done"
           /\ call[c].result = <<>>
           /\ call[c].opened = <<call[c].metadata_file_path>>

\* C3, as stated: after each manifest file, the keys collected are
\* <table-root>/metadata/<parent-directory-name>/<filename> of every file_path
\* read so far.
C3_KeysAnchoredUnderMetadata ==
    \A c \in Calls :
        call[c].pc = "getFilesForRead" =>
            call[c].keys = AnchoredDataFilesUpTo(c, call[c].i - 1)

\* C3, amended: after each manifest file, the keys collected are
\* <parent-directory-name>/<filename> of every file_path read so far, with
\* nothing put before them.
C3_KeysArePartitionAndName ==
    \A c \in Calls :
        call[c].pc = "getFilesForRead" =>
            call[c].keys = DataFilesUpTo(c, call[c].i - 1)

\* A call between two manifest files that holds a key with a partition directory.
C3_Witness ==
    \E c \in Calls :
        /\ call[c].pc = "getFilesForRead"
        /\ call[c].i = 2
        /\ \E j \in 1..Len(call[c].keys) :
              call[c].keys[j] = <<"p", "=", "1", "/", "a", ".", "p", "a", "r", "q", "u", "e", "t">>

\* C4: the list getFiles returns is, manifest file after manifest file in
\* manifest-list order and row after row, <parent-directory-name>/<filename>
\* of every file_path of the current snapshot; one manifest listing
\* a.parquet under p=1/ and b.parquet under p=2/ gives exactly those two.
C4_EndToEnd ==
    \A c \in Calls :
        call[c].pc = "done" /\ Listed(c) =>
            /\ call[c].result = DataFilesUpTo(c, Len(call[c].manifest_files))
            /\ call[c].manifest_files =
                   [j \in 1..Len(FieldOf(storage[call[c].manifest_list], 0)) |->
                       UnderMetadata(BaseName(FieldOf(storage[call[c].manifest_list], 0)[j]))]
            /\ (/\ Len(call[c].manifest_files) = 1
                /\ FieldOf(storage[call[c].manifest_files[1]], 2) = <<P1A, P2B>>)
               => call[c].result =
                      <<<<"p", "=", "1", "/", "a", ".", "p", "a", "r", "q", "u", "e", "t">>,
                        <<"p", "=", "2", "/", "b", ".", "p", "a", "r", "q", "u", "e", "t">>>>

\* A call that returned the keys of two manifest files, three rows in all.
C4_Witness ==
    \E c \in Calls :
        /\ call[c].pc = "done"
        /\ Len(call[c].manifest_files) = 2
        /\ Len(call[c].result) = 3
        /\ call[c].result[1] # call[c].result[2]

\* C5: when an entry of snapshots carries the current snapshot id,
\* getManifestListFromMetadata returns <table-root>/metadata/<filename> of the
\* manifest-list value of the first such entry; entries with another id never
\* decide it.
C5_ManifestListOfCurrentSnapshot ==
    \A c \in Calls :
        Resolved(c) /\ Matching(Document(c)) # {} =>
            LET n == CHOOSE m \in Matching(Document(c)) :
                        \A k \in Matching(Document(c)) : m <= k
            IN call[c].manifest_list =
                   UnderMetadata(BaseName(Document(c).snapshots[n].manifest_list))

\* Current id 7, after an entry of id 5: the list is metadata/s7.
C5_Witness ==
    \E c \in Calls :
        /\ Resolved(c)
        /\ Document(c).current = Present(7)
        /\ Len(Document(c).snapshots) = 2
        /\ Document(c).snapshots[1].snapshot_id = 5
        /\ Document(c).snapshots[2] = SnapshotRecord(7, S7)
        /\ call[c].manifest_list = UnderMetadata(<<"s", "7">>)


\* The first manifest file of the call that cannot be read as a well-typed
\* manifest, 0 when every one can.
FirstUnreadable(c) ==
    LET bad == {j \in 1..Len(call[c].manifest_files) :
                  ~WellTypedManifest(call[c].manifest_files[j])}
    IN IF bad = {} THEN 0 ELSE CHOOSE j \in bad : \A k \in bad : j <= k

\* C6: a manifest list whose manifest_path column is not a string, or a manifest
\* file whose third field is not a nested record with a string first, makes the
\* call fail with ILLEGAL_COLUMN and deliver nothing, also when manifest files
\* before it were decoded; a call that returns met no such file.
C6_TypeMismatchFailsWholeCall ==
    \A c \in Calls :
        /\ call[c].pc = "failed" => call[c].result = <<>>
        /\ Finished(c) /\ Resolved(c) /\ MismatchedList(call[c].manifest_list)
               => call[c].pc = "failed" /\ call[c].error = "ILLEGAL_COLUMN"
        /\ (/\ Finished(c)
            /\ Listed(c)
            /\ FirstUnreadable(c) # 0
            /\ MismatchedManifest(call[c].manifest_files[
                   IF FirstUnreadable(c) = 0 THEN 1 ELSE FirstUnreadable(c)]))
               => call[c].pc = "failed" /\ call[c].error = "ILLEGAL_COLUMN"
        /\ call[c].pc = "done" /\ Listed(c)
               => \A j \in 1..Len(call[c].manifest_files) :
                      WellTypedManifest(call[c].manifest_files[j])

\* A call that failed on its second manifest file, holding keys of the first.
C6_Witness ==
    \E c \in Calls :
        /\ call[c].pc = "failed"
        /\ call[c].error = "ILLEGAL_COLUMN"
        /\ call[c].i = 2
        /\ call[c].keys # <<>>
        /\ call[c].result = <<>>

\* C7: when no key of the metadata directory ends with .metadata.json, the
\* call fails with FILE_DOESNT_EXIST and no read buffer was created in it.
C7_MetadataNotFound ==
    \A c \in Calls :
        Located(c) /\ Listing = {} =>
            /\ call[c].pc = "failed"
            /\ call[c].error = "FILE_DOESNT_EXIST"
            /\ call[c].opened = <<>>
            /\ call[c].buf = <<>>

\* A call on a table whose metadata directory lists nothing.
C7_Witness ==
    \E c \in Calls :
        /\ Listing = {}
        /\ call[c].pc = "failed"
        /\ call[c].error = "FILE_DOESNT_EXIST"

\* C8: of a manifest list of N rows in any number of blocks, the decode loop
\* holds the manifest_path of the first k rows after k turns, and
\* getManifestFiles returns N paths, the i-th <table-root>/metadata/<filename>
\* of the i-th row: none skipped, repeated, reordered or merged.
C8_EveryRowOnceInOrder ==
    \A c \in Calls :
        LET paths == FieldOf(storage[call[c].manifest_list], 0)
            got == call[c].columns.values
        IN /\ call[c].pc = "parseAvro_list" =>
                 /\ Len(got) <= Len(paths)
                 /\ \A j \in 1..Len(got) : got[j] = <<paths[j]>>
                 /\ ~hasMore(call[c].file_reader) => Len(got) = Len(paths)
           /\ Listed(c) =>
                 /\ Len(call[c].manifest_files) = Len(paths)
                 /\ \A j \in 1..Len(paths) :
                        call[c].manifest_files[j] = UnderMetadata(BaseName(paths[j]))

\* Two rows in two blocks whose paths differ and rewrite to the same key.
C8_Witness ==
    \E c \in Calls :
        /\ Listed(c)
        /\ Len(storage[call[c].manifest_list].blocks) = 2
        /\ FieldOf(storage[call[c].manifest_list], 0) = <<M0, M0bare>>
        /\ call[c].manifest_files = <<UnderMetadata(<<"m", "0">>), UnderMetadata(<<"m", "0">>)>>

\* C9: two calls of getFiles on the same table end alike, with the same
\* ordered output, however their steps interleave.
C9_TwoCallsAgree ==
    \A c, d \in Calls :
        Finished(c) /\ Finished(d) =>
            /\ call[c].pc = call[d].pc
            /\ call[c].error = call[d].error
            /\ call[c].result = call[d].result

\* Both calls returned a list that is not empty.
C9_Witness ==
    /\ \A c \in Calls : call[c].pc = "done"
    /\ call[1].result # <<>>

\* C10: a call holds at most one read buffer at a time, none between two
\* files, and none once it has returned or failed.
C10_OneStreamAtATime ==
    \A c \in Calls :
        /\ Len(call[c].buf) <= 1
        /\ call[c].pc \in {"idle", "getMetadataFile", "createReadBuffer", "getFiles",
                           "getManifestFiles", "getFilesForRead", "done", "failed"}
               => call[c].buf = <<>>
        /\ call[c].pc \in {"parse", "parseAvro_list", "parseAvro_manifest"}
               => call[c].buf = <<call[c].opened[Len(call[c].opened)]>>

\* A call that failed while decoding its third file.
C10_Witness ==
    \E c \in Calls :
        /\ call[c].pc = "failed"
        /\ call[c].error = "ILLEGAL_COLUMN"
        /\ Len(call[c].opened) = 3
        /\ call[c].buf = <<>>

=============================================================================
